---------------------------- MODULE Spec2Model ----------------------------
(***************************************************************************)
(* Model of speedo/speedometer.py: the Speedometer gauge chart.            *)
(*                                                                         *)
(* The state is the Speedometer object's fields that the geometry and the  *)
(* update path read or write, plus the needle primitive's drawn            *)
(* orientation.  Numbers are exact rationals <<num, den>> (den > 0, lowest *)
(* terms), standing for the floats numpy computes; the arguments are       *)
(* Python numbers, so a division by zero raises.                           *)
(*                                                                         *)
(* Of the primitives, the wedges carry their angles, facecolor, alpha and  *)
(* hatch, the needle its direction in degrees (a rotation of its vertices  *)
(* by a delta adds the delta to it) and the annotation its value and unit. *)
(* Tick labels, the title, the pivot circle, center, radius and the text   *)
(* styling take no part in the geometry and are left out.                  *)
(***************************************************************************)
EXTENDS Integers, Sequences, FiniteSets, TLC

(***************************************************************************)
(* Bounds of the model.                                                    *)
(***************************************************************************)
MaxColors == 2
MaxSegments == 2
Margin == 1

(***************************************************************************)
(* Exact rational arithmetic.                                              *)
(***************************************************************************)
Abs(x) == IF x < 0 THEN -x ELSE x

RECURSIVE GCD(_, _)
GCD(a, b) == IF b = 0 THEN a ELSE GCD(b, a % b)

Rat(n, d) ==
    LET s == IF d < 0 THEN -1 ELSE 1
        g == GCD(Abs(n), Abs(d))
    IN  <<(s * n) \div g, (s * d) \div g>>

FromInt(i) == <<i, 1>>
RAdd(a, b) == Rat(a[1] * b[2] + b[1] * a[2], a[2] * b[2])
RSub(a, b) == Rat(a[1] * b[2] - b[1] * a[2], a[2] * b[2])
RMul(a, b) == Rat(a[1] * b[1], a[2] * b[2])
RDiv(a, b) == Rat(a[1] * b[2], a[2] * b[1])
RLt(a, b) == a[1] * b[2] < b[1] * a[2]
RLe(a, b) == a[1] * b[2] <= b[1] * a[2]
RAbs(a) == <<Abs(a[1]), a[2]>>
Zero == FromInt(0)

(***************************************************************************)
(* Python sequence idioms.  TLA+ sequences are 1-based; Python indices are *)
(* 0-based and a negative index counts from the end.                       *)
(***************************************************************************)
PyIndex(s, k) == IF k < 0 THEN s[Len(s) + k + 1] ELSE s[k + 1]

\* s[-1::-1]
Reversed(s) == [i \in 1..Len(s) |-> s[Len(s) + 1 - i]]

\* s[-2::-1]: from the next-to-last element down to the first
RevFromSecondLast(s) ==
    IF Len(s) < 2 THEN << >> ELSE [i \in 1..(Len(s) - 1) |-> s[Len(s) - i]]

\* s[-2::-2]: from the next-to-last element downwards, every second one
RevEverySecond(s) ==
    IF Len(s) < 2 THEN << >>
    ELSE [i \in 1..(Len(s) \div 2) |-> s[Len(s) + 1 - 2 * i]]

Min(a, b) == IF a < b THEN a ELSE b

\* np.repeat(colors, segments_per_color)
repeat(colors, k) ==
    [i \in 1..(Len(colors) * k) |-> colors[((i - 1) \div k) + 1]]

\* np.linspace(start, end, num, endpoint=True), start and end integers
linspace(start, end, num) ==
    [i \in 1..num |->
        IF num = 1 THEN FromInt(start)
        ELSE RAdd(FromInt(start), Rat((i - 1) * (end - start), num - 1))]

\* np.argmin(abs(arr - v)): 0-based index of the first minimum
argmin_abs_diff(arr, v) ==
    LET d(i) == RAbs(RSub(arr[i], FromInt(v)))
        best == CHOOSE i \in 1..Len(arr) :
                   /\ \A j \in 1..Len(arr) : RLe(d(i), d(j))
                   /\ \A j \in 1..(i - 1) : RLt(d(i), d(j))
    IN  best - 1

\* degree_range(n, start, end): the n (start, end) angle pairs and midpoints
degree_range(n, start, end) ==
    LET pts == linspace(start, end, n + 1)
        start_ == SubSeq(pts, 1, n)
        end_ == SubSeq(pts, 2, n + 1)
        mid_points == [i \in 1..n |->
                         RAdd(start_[i],
                              RDiv(RSub(end_[i], start_[i]), FromInt(2)))]
    IN  [angle_range |-> [i \in 1..n |-> <<start_[i], end_[i]>>],
         midpoints |-> mid_points]


(***************************************************************************)
(* Constructor arguments the model draws from.                             *)
(***************************************************************************)
Palette == <<"#d7191c", "#fdae61", "#ffffbf", "#abd9e9", "#2c7bb6">>
ColorLists == {SubSeq(Palette, 1, n) : n \in 1..Min(MaxColors, Len(Palette))}
Domain == <<0, 10>>
ValueEnds == {Domain, <<Domain[2], Domain[1]>>, <<Domain[1], Domain[1]>>}
\* Every integer of the domain and Margin integers beyond either end.
Values == (Domain[1] - Margin)..(Domain[2] + Margin)
AnglePairs == {<<-30, 210>>, <<180, 0>>, <<90, 90>>}
FadeStyles == {[fade_alpha |-> Rat(1, 4), fade_hatch |-> "xxx"]}

ArgSets ==
    [ends : ValueEnds, value : Values,
     colors : ColorLists, segments_per_color : 1..MaxSegments,
     angles : AnglePairs, fade : FadeStyles, snap_to_pos : BOOLEAN]

(***************************************************************************)
(* State.                                                                  *)
(*   args             the arguments of the constructor call                *)
(*   pc               "new" before __init__ ran, "built" right after it    *)
(*                    returned, "updated" after update_arrow_position,     *)
(*                    "error" when __init__ raised                         *)
(*                    returned, "update_error" when it raised              *)
(*   self             the Speedometer object's fields                      *)
(*   rotation_sum     the sum of all deltas applied to the needle          *)
(*   needle_moved     some update rotated the needle by a non-zero delta   *)
(*   repeated_call    the last call was update_arrow_position(v) on an     *)
(*                    object whose previous call was the same              *)
(***************************************************************************)
VARIABLES args, pc, self, rotation_sum, needle_moved, repeated_call

vars == <<args, pc, self, rotation_sum, needle_moved, repeated_call>>

Unset == "unset"

NoObject ==
    [start_value |-> Unset, end_value |-> Unset, value |-> Unset,
     start_angle |-> Unset, end_angle |-> Unset, snap_to_pos |-> Unset,
     fade_alpha |-> Unset, fade_hatch |-> Unset, n_colors |-> Unset,
     colors |-> Unset, midpoint_values |-> Unset, edge_values |-> Unset,
     arrow_index |-> Unset, arrow_value |-> Unset, angle_range |-> Unset,
     midpoints |-> Unset, annotation_angles |-> Unset, patches |-> Unset,
     deg_range |-> Unset, val_range |-> Unset, arrow_angle |-> Unset,
     arrow |-> Unset, annotation |-> Unset]

Init ==
    /\ args \in ArgSets
    /\ pc = "new"
    /\ self = NoObject
    /\ rotation_sum = Zero
    /\ needle_moved = FALSE
    /\ repeated_call = FALSE

(***************************************************************************)
(* set_arrow_angle: the object after the call, or a ZeroDivisionError.     *)
(***************************************************************************)
\* self.midpoints[-1::-1][(self.arrow_index - len(self.colors))]
snap_angle(midpoints, arrow_index, n) ==
    PyIndex(Reversed(midpoints), arrow_index - n)

\* Variant: the interpolation measured from start_angle instead of
\* end_angle.
interpolate_from_start(value, start_value, val_range, end_angle, deg_range) ==
    RAdd(FromInt(end_angle - deg_range),
         RMul(Rat(value - start_value, val_range), FromInt(deg_range)))

\* Variant: the value clamped into the domain before the interpolation.
interpolate_clamped(value, start_value, val_range, end_angle, deg_range) ==
    LET lo == IF val_range < 0 THEN start_value + val_range ELSE start_value
        hi == IF val_range < 0 THEN start_value ELSE start_value + val_range
        v == IF value < lo THEN lo ELSE IF value > hi THEN hi ELSE value
    IN  RSub(FromInt(end_angle),
             RMul(Rat(v - start_value, val_range), FromInt(deg_range)))

\* self.end_angle - (self.value - self.start_value) / self.val_range
\*                  * self.deg_range
interpolate(value, start_value, val_range, end_angle, deg_range) ==
    RSub(FromInt(end_angle),
         RMul(Rat(value - start_value, val_range), FromInt(deg_range)))

set_arrow_angle(o) ==
    IF o.snap_to_pos
    THEN [raised |-> FALSE,
          obj |-> [o EXCEPT !.arrow_angle =
                      snap_angle(o.midpoints, o.arrow_index, Len(o.colors))]]
    ELSE LET deg_range == o.end_angle - o.start_angle
             val_range == o.end_value - o.start_value
             o2 == [o EXCEPT !.deg_range = deg_range, !.val_range = val_range]
         IN  IF val_range = 0
             THEN [raised |-> TRUE, obj |-> o2]
             ELSE [raised |-> FALSE,
                   obj |-> [o2 EXCEPT !.arrow_angle =
                              interpolate(o.value, o.start_value, val_range,
                                          o.end_angle, deg_range)]]

\* Variant: the fade test with a strict comparison.
init_faded_strict(arrow_value, val) == RLt(arrow_value, val)

(***************************************************************************)
(* The fade test of the constructor's wedge loop: a wedge whose boundary   *)
(* value val is not below arrow_value is drawn faded.                      *)
(***************************************************************************)
init_faded(arrow_value, val) == RLe(arrow_value, val)

\* Variant: only the filled wedge is appended, the outline wedge is not.
init_wedges_filled_only(o, ang, c, val) ==
    LET faded == RLe(o.arrow_value, val)
    IN  << [theta |-> ang, facecolor |-> c,
            alpha |-> IF faded THEN o.fade_alpha ELSE FromInt(1),
            hatch |-> IF faded THEN o.fade_hatch ELSE "None"] >>

\* The two Wedge primitives the constructor appends for one segment.
init_wedges(o, ang, c, val) ==
    LET faded == init_faded(o.arrow_value, val)
    IN  << [theta |-> ang, facecolor |-> c,
            alpha |-> IF faded THEN o.fade_alpha ELSE FromInt(1),
            hatch |-> IF faded THEN o.fade_hatch ELSE "None"],
           [theta |-> ang, facecolor |-> "None",
            alpha |-> "None", hatch |-> "None"] >>

\* for ang, c, val in zip(angle_range, colors, edge_values[-2::-1])
RECURSIVE init_patches(_, _, _)
init_patches(o, k, n) ==
    IF k > n THEN << >>
    ELSE init_wedges(o, o.angle_range[k], o.colors[k],
                     RevFromSecondLast(o.edge_values)[k])
         \o init_patches(o, k + 1, n)

\* The fields __init__ sets before it calls set_arrow_angle.
init_geometry(a) ==
    LET n_colors == Len(a.colors)
        colors == repeat(a.colors, a.segments_per_color)
        midpoint_values == linspace(a.ends[1], a.ends[2],
                                    a.segments_per_color * n_colors)
        edge_values == linspace(a.ends[1], a.ends[2],
                                a.segments_per_color * n_colors + 1)
        arrow_index == argmin_abs_diff(midpoint_values, a.value)
        N == Len(colors)
        dr == degree_range(N, a.angles[1], a.angles[2])
        o1 == [NoObject EXCEPT
                 !.start_value = a.ends[1], !.end_value = a.ends[2],
                 !.value = a.value,
                 !.start_angle = a.angles[1], !.end_angle = a.angles[2],
                 !.snap_to_pos = a.snap_to_pos,
                 !.fade_alpha = a.fade.fade_alpha,
                 !.fade_hatch = a.fade.fade_hatch,
                 !.n_colors = n_colors, !.colors = colors,
                 !.midpoint_values = midpoint_values,
                 !.edge_values = edge_values,
                 !.arrow_index = arrow_index,
                 !.arrow_value = midpoint_values[arrow_index + 1],
                 !.angle_range = dr.angle_range,
                 !.midpoints = dr.midpoints,
                 !.annotation_angles =
                     [i \in 1..N |-> dr.angle_range[i][1]]
                     \o <<dr.angle_range[N][2]>>]
        zipLen == Min(N, Min(Len(colors), Len(edge_values) - 1))
    IN  [o1 EXCEPT !.patches = init_patches(o1, 1, zipLen)]

\* Speedometer.__init__
Speedometer_init ==
    /\ pc = "new"
    /\ LET r == set_arrow_angle(init_geometry(args))
       IN  IF r.raised
           THEN /\ pc' = "error"
                /\ self' = r.obj
           ELSE /\ pc' = "built"
                /\ self' = [r.obj EXCEPT
                              !.arrow = [direction |-> r.obj.arrow_angle],
                              !.annotation = <<args.value, "">>]
    /\ UNCHANGED <<args, rotation_sum, needle_moved, repeated_call>>

(***************************************************************************)
(* update_wedges: the filled wedges, last one first, restyled against the  *)
(* edge values in ascending order.                                         *)
(***************************************************************************)
update_solid(edge, value) == RLt(edge, FromInt(value))

update_wedges(o) ==
    LET n == Len(o.patches)
        targets == RevEverySecond([i \in 1..n |-> i])
        zipLen == Min(Len(o.edge_values), Len(targets))
        restyle(p, b) ==
            IF b THEN [p EXCEPT !.alpha = FromInt(1), !.hatch = ""]
            ELSE [p EXCEPT !.alpha = o.fade_alpha, !.hatch = o.fade_hatch]
    IN  [o EXCEPT !.patches =
            [i \in 1..n |->
                IF \E j \in 1..zipLen : targets[j] = i
                THEN LET j == CHOOSE j \in 1..zipLen : targets[j] = i
                     IN  restyle(o.patches[i],
                                 update_solid(o.edge_values[j], o.value))
                ELSE o.patches[i]]]

\* Variant: the needle turned by the new angle, not by the difference.
rotation_delta_absolute(new_angle, old_angle) == new_angle

\* Variant: the difference taken the wrong way round.
rotation_delta_reversed(new_angle, old_angle) == RSub(old_angle, new_angle)

\* rotation_degrees = self.arrow_angle - old_angle
rotation_delta(new_angle, old_angle) == RSub(new_angle, old_angle)

\* Speedometer.update_arrow_position(value)
update_arrow_position(value) ==
    /\ pc \in {"built", "updated"}
    /\ \E arrow_index \in {argmin_abs_diff(self.midpoint_values, value)} :
       \E r \in {set_arrow_angle(
                    [self EXCEPT
                       !.value = value,
                       !.arrow_index = arrow_index,
                       !.arrow_value = self.midpoint_values[arrow_index + 1]])} :
       \E delta \in {rotation_delta(r.obj.arrow_angle, self.arrow_angle)} :
          IF r.raised
          THEN /\ pc' = "update_error"
               /\ self' = r.obj
               /\ UNCHANGED <<rotation_sum, needle_moved>>
          ELSE \E o \in {[r.obj EXCEPT
                            !.arrow = [direction |->
                                         RAdd(self.arrow.direction, delta)],
                            !.annotation = <<value, "">>]} :
                  /\ pc' = "updated"
                  /\ self' = update_wedges(o)
                  /\ rotation_sum' = RAdd(rotation_sum, delta)
                  /\ needle_moved' = (needle_moved \/ delta # Zero)
    /\ repeated_call' = (pc = "updated" /\ self.value = value)
    /\ UNCHANGED args

Next ==
    \/ Speedometer_init
    \/ \E value \in Values : update_arrow_position(value)

Spec == Init /\ [][Next]_vars


(***************************************************************************)
(* Vocabulary of the properties.                                           *)
(***************************************************************************)
Constructed == pc \in {"built", "updated"}

\* N = segments_per_color * len(colors), from the constructor arguments
NumSegments == args.segments_per_color * Len(args.colors)

ValidRange == args.ends[1] < args.ends[2]
InDomain(v) == args.ends[1] <= v /\ v <= args.ends[2]

\* The filled wedge of the k-th segment in angular order (k = 1..N).
Filled(o, k) == o.patches[2 * k - 1]

NoHatch(p) == p.hatch \in {"None", ""}
IsSolid(p) == p.alpha = FromInt(1) /\ NoHatch(p)
IsFaded(o, p) == p.alpha = o.fade_alpha /\ p.hatch = o.fade_hatch

\* What a wedge looks like: its alpha and the hatch that is drawn.
Styling(p) == <<p.alpha, IF NoHatch(p) THEN "" ELSE p.hatch>>

\* The object a fresh construction with value v builds from the same
\* arguments.
Fresh(v) == set_arrow_angle(init_geometry([args EXCEPT !.value = v])).obj

RMin(a, b) == IF RLe(a, b) THEN a ELSE b
RMax(a, b) == IF RLe(a, b) THEN b ELSE a
Dist(a, b) == RAbs(RSub(a, b))

\* Value start_value sits at end_angle and end_value at start_angle, so
\* the low-value side of an angle is the side towards end_angle.
OnLowValueSide(o, k) ==
    LET th == o.angle_range[k]
    IN  IF o.start_angle < o.end_angle
        THEN RLt(o.arrow_angle, RMin(th[1], th[2]))
        ELSE o.start_angle > o.end_angle
             /\ RLt(RMax(th[1], th[2]), o.arrow_angle)

OnHighValueSide(o, k) ==
    LET th == o.angle_range[k]
    IN  IF o.start_angle < o.end_angle
        THEN RLt(RMax(th[1], th[2]), o.arrow_angle)
        ELSE o.start_angle > o.end_angle
             /\ RLt(o.arrow_angle, RMin(th[1], th[2]))

(***************************************************************************)
(* C1: after update_arrow_position(v) every filled wedge is styled (alpha, *)
(* drawn hatch) as a fresh construction with value v styles it.  Stated    *)
(* for the ordinary case, start_value < end_value and v in the domain,     *)
(* where it already fails.                                                 *)
(***************************************************************************)
C1_UpdateStylesLikeConstruction ==
    (pc = "updated" /\ ValidRange /\ InDomain(self.value)) =>
        \A fresh \in {Fresh(self.value)} :
            \A k \in 1..NumSegments :
                Styling(Filled(self, k)) = Styling(Filled(fresh, k))

(***************************************************************************)
(* C2: with start_value < end_value and fade_alpha # 1, in every state of  *)
(* a constructed chart each wedge lying wholly on the low-value side of    *)
(* arrow_angle has alpha 1 and each wedge lying wholly on the high-value   *)
(* side has alpha fade_alpha.  Stated for values in the domain and for     *)
(* wedges strictly beyond the needle, where it already fails.              *)
(***************************************************************************)
C2_BehindSolidAheadFaded ==
    (Constructed /\ ValidRange /\ InDomain(self.value)
       /\ self.fade_alpha # FromInt(1)) =>
        \A k \in 1..NumSegments :
            /\ OnLowValueSide(self, k) => Filled(self, k).alpha = FromInt(1)
            /\ OnHighValueSide(self, k) =>
                   Filled(self, k).alpha = self.fade_alpha

(***************************************************************************)
(* C3: in snap mode, for start_value <= value <= end_value, arrow_angle is *)
(* the angular midpoint of the wedge whose value interval                  *)
(* [edge_values[i], edge_values[i+1]] contains value.  The wedge with that *)
(* interval is the (N-i)-th of N in angular order (i counted from 0).      *)
(***************************************************************************)
C3_SnapsToContainingWedge ==
    (Constructed /\ args.snap_to_pos /\ InDomain(self.value)) =>
        \E i \in 1..NumSegments :
            /\ RLe(self.edge_values[i], FromInt(self.value))
            /\ RLe(FromInt(self.value), self.edge_values[i + 1])
            /\ self.arrow_angle = self.midpoints[NumSegments + 1 - i]

(***************************************************************************)
(* C4: in continuous mode with start_value < end_value, arrow_angle is     *)
(* linear in value, a larger value in the domain brings arrow_angle        *)
(* strictly closer to end_angle, and at value = end_value the angle is     *)
(* end_angle.                                                              *)
(***************************************************************************)
C4_ContinuousUpdate ==
    /\ Constructed
    /\ pc' = "updated"
    /\ ~args.snap_to_pos
    /\ ValidRange

C4_Linear ==
    RMul(RSub(self'.arrow_angle, self.arrow_angle),
         FromInt(self.end_value - self.start_value))
      = FromInt(-(self'.value - self.value)
                  * (self.end_angle - self.start_angle))

C4_TowardsEndAngle ==
    [][C4_ContinuousUpdate =>
         /\ C4_Linear
         /\ (self.value < self'.value /\ InDomain(self.value)
               /\ InDomain(self'.value)) =>
                RLt(Dist(FromInt(self.end_angle), self'.arrow_angle),
                    Dist(FromInt(self.end_angle), self.arrow_angle))
         /\ self'.value = self.end_value =>
                self'.arrow_angle = FromInt(self.end_angle)]_vars

(***************************************************************************)
(* C4, amended: in continuous mode with start_value < end_value,           *)
(* arrow_angle is linear in value; at value = start_value it is end_angle  *)
(* and at value = end_value it is start_angle; with                        *)
(* start_angle # end_angle a larger value in the domain brings arrow_angle *)
(* strictly closer to start_angle (and farther from end_angle).            *)
(***************************************************************************)
C4_TowardsStartAngle ==
    [][C4_ContinuousUpdate =>
         /\ C4_Linear
         /\ (self.value < self'.value /\ InDomain(self.value)
               /\ InDomain(self'.value)
               /\ self.start_angle # self.end_angle) =>
                /\ RLt(Dist(FromInt(self.start_angle), self'.arrow_angle),
                       Dist(FromInt(self.start_angle), self.arrow_angle))
                /\ RLt(Dist(FromInt(self.end_angle), self.arrow_angle),
                       Dist(FromInt(self.end_angle), self'.arrow_angle))
         /\ self'.value = self.end_value =>
                self'.arrow_angle = FromInt(self.start_angle)
         /\ self'.value = self.start_value =>
                self'.arrow_angle = FromInt(self.end_angle)]_vars

C4_Witness ==
    /\ pc = "updated"
    /\ ~args.snap_to_pos
    /\ ValidRange
    /\ self.start_angle # self.end_angle
    /\ needle_moved
    /\ self.value = self.end_value
    /\ self.arrow_angle = FromInt(self.start_angle)

(***************************************************************************)
(* C5: a construction with start_value = end_value ends in an error, in    *)
(* snap mode as in continuous mode; no chart object results.               *)
(***************************************************************************)
C5_EmptyRangeRaises ==
    (pc # "new" /\ args.ends[1] = args.ends[2]) => pc = "error"

(***************************************************************************)
(* C6: right after construction the k-th wedge in angular order is solid   *)
(* (alpha 1, no hatch) if edge_values[N-1-k] <= arrow_value (k from 0),    *)
(* equality included, and faded (fade_alpha, fade_hatch) otherwise.        *)
(* Stated for start_value < end_value, where it already fails.             *)
(***************************************************************************)
C6_SolidIffBoundaryNotAbove ==
    (pc = "built" /\ ValidRange) =>
        \A k \in 1..NumSegments :
            IF RLe(self.edge_values[NumSegments + 1 - k], self.arrow_value)
            THEN IsSolid(Filled(self, k))
            ELSE IsFaded(self, Filled(self, k))

(***************************************************************************)
(* C6, amended: right after construction the k-th wedge in angular order   *)
(* is solid (alpha 1, no hatch) if edge_values[N-1-k] < arrow_value and    *)
(* faded (fade_alpha, fade_hatch) otherwise, the equality case included:   *)
(* with value = start_value every wedge is faded.                          *)
(***************************************************************************)
C6_SolidIffBoundaryBelow ==
    pc = "built" =>
        /\ \A k \in 1..NumSegments :
              IF RLt(self.edge_values[NumSegments + 1 - k], self.arrow_value)
              THEN IsSolid(Filled(self, k))
              ELSE IsFaded(self, Filled(self, k))
        /\ (ValidRange /\ self.value = self.start_value) =>
              \A k \in 1..NumSegments : IsFaded(self, Filled(self, k))

C6_Witness ==
    /\ pc = "built"
    /\ ValidRange
    /\ self.value = self.start_value
    /\ self.arrow_value = self.edge_values[1]
    /\ IsFaded(self, Filled(self, NumSegments))
    /\ ~IsSolid(Filled(self, NumSegments))

(***************************************************************************)
(* C7: update_arrow_position(v) called on a chart whose previous call was  *)
(* update_arrow_position(v) changes neither arrow_angle, arrow_index,      *)
(* arrow_value nor any wedge, and rotates the needle by a zero delta.      *)
(***************************************************************************)
C7_UpdateIdempotent ==
    [][(pc = "updated" /\ pc' = "updated" /\ self'.value = self.value) =>
         /\ self'.arrow_angle = self.arrow_angle
         /\ self'.arrow_index = self.arrow_index
         /\ self'.arrow_value = self.arrow_value
         /\ self'.patches = self.patches
         /\ self'.arrow = self.arrow
         /\ rotation_sum' = rotation_sum]_vars

C7_Witness ==
    /\ pc = "updated"
    /\ repeated_call
    /\ needle_moved
    /\ \E k \in 1..NumSegments : IsSolid(Filled(self, k))
    /\ \E k \in 1..NumSegments : IsFaded(self, Filled(self, k))

(***************************************************************************)
(* C8: whatever calls came before, arrow_angle is the angle a fresh        *)
(* construction with the current value computes, the deltas applied to the *)
(* needle sum to arrow_angle minus the construction-time angle, and the    *)
(* needle is drawn at arrow_angle; back at the construction value the      *)
(* needle is back at its construction-time angle.                          *)
(***************************************************************************)
C8_NeedleHistoryIndependent ==
    Constructed =>
        \A now \in {Fresh(self.value).arrow_angle} :
        \A first \in {Fresh(args.value).arrow_angle} :
            /\ self.arrow_angle = now
            /\ rotation_sum = RSub(self.arrow_angle, first)
            /\ self.arrow.direction = RAdd(first, rotation_sum)
            /\ self.value = args.value =>
                   /\ self.arrow_angle = first
                   /\ self.arrow.direction = first

C8_Witness ==
    /\ pc = "updated"
    /\ ~args.snap_to_pos
    /\ needle_moved
    /\ self.value = args.value
    /\ rotation_sum = Zero
    /\ self.arrow.direction = Fresh(args.value).arrow_angle

(***************************************************************************)
(* C9: update_arrow_position takes a value outside the domain without an   *)
(* error.  With start_value < end_value and start_angle < end_angle, in    *)
(* continuous mode a value above end_value gives arrow_angle < start_angle *)
(* and one below start_value gives arrow_angle > end_angle; in snap mode   *)
(* arrow_index is N-1 resp. 0 and the needle is on the midpoint of the     *)
(* wedge at that end of the dial.                                          *)
(***************************************************************************)
C9_OutOfRangeAccepted ==
    /\ pc # "update_error"
    /\ (pc = "updated" /\ ValidRange /\ self.start_angle < self.end_angle) =>
          /\ self.value > self.end_value =>
                IF args.snap_to_pos
                THEN /\ self.arrow_index = NumSegments - 1
                     /\ self.arrow_angle = self.midpoints[1]
                ELSE RLt(self.arrow_angle, FromInt(self.start_angle))
          /\ self.value < self.start_value =>
                IF args.snap_to_pos
                THEN /\ self.arrow_index = 0
                     /\ self.arrow_angle = self.midpoints[NumSegments]
                ELSE RLt(FromInt(self.end_angle), self.arrow_angle)

C9_Witness ==
    /\ pc = "updated"
    /\ ValidRange
    /\ self.start_angle < self.end_angle
    /\ ~args.snap_to_pos
    /\ self.value > self.end_value
    /\ RLt(self.arrow_angle, FromInt(self.start_angle))

(***************************************************************************)
(* C10: with N = segments_per_color * len(colors), a constructed chart has *)
(* N colors, angle ranges, midpoints and midpoint values, N+1 edge values  *)
(* and annotation angles, and 2N wedges (N filled, each followed by its    *)
(* outline), before and after every update.                                *)
(***************************************************************************)
C10_SegmentCounts ==
    Constructed =>
        /\ Len(self.colors) = NumSegments
        /\ Len(self.angle_range) = NumSegments
        /\ Len(self.midpoints) = NumSegments
        /\ Len(self.midpoint_values) = NumSegments
        /\ Len(self.edge_values) = NumSegments + 1
        /\ Len(self.annotation_angles) = NumSegments + 1
        /\ Len(self.patches) = 2 * NumSegments
        /\ \A k \in 1..NumSegments :
              /\ self.patches[2 * k - 1].facecolor = self.colors[k]
              /\ self.patches[2 * k].facecolor = "None"
              /\ self.patches[2 * k].theta = self.patches[2 * k - 1].theta

C10_Witness ==
    /\ pc = "updated"
    /\ needle_moved
    /\ NumSegments >= 4
    /\ Len(self.patches) = 2 * NumSegments

=============================================================================
